---- MODULE Spec2Model ----
(***************************************************************************)
(* Model of src/src/project_summerizer.py: ProjectSummerizer and main,     *)
(* and of the two request functions of src/src/llm_cli.py.                 *)
(* Text is modelled as sequences of one-character strings so that regex    *)
(* matching, prefix slicing and substring tests are computed, not assumed. *)
(* Paths follow the POSIX convention (os.sep = "/").                       *)
(***************************************************************************)
EXTENDS Integers, Sequences, FiniteSets, TLC

VARIABLES pc, fs, root_exists, denied, project_gitignore, scan_order, no_gitignore,
          ignore_patterns, summary, undocumented, todo, warnings, errors,
          out_gitignore, updates, runs, exit_code,
          lru, cache_hits, cache_misses, calls

vars == <<pc, fs, root_exists, denied, project_gitignore, scan_order, no_gitignore,
          ignore_patterns, summary, undocumented, todo, warnings, errors,
          out_gitignore, updates, runs, exit_code,
          lru, cache_hits, cache_misses, calls>>

\* the state of src/src/llm_cli.py: the lru_cache of comunicate_with_llm_cached,
\* its two counters, and the calls the process has made
llm_vars == <<lru, cache_hits, cache_misses, calls>>

(***************************************************************************)
(* Text helpers (Python str operations used by the source).                *)
(***************************************************************************)
os_sep == <<"/">>

StartsWith(s, p) == Len(s) >= Len(p) /\ SubSeq(s, 1, Len(p)) = p

EndsWith(s, p) == Len(s) >= Len(p) /\ SubSeq(s, Len(s) - Len(p) + 1, Len(s)) = p

\* e in text  (substring test)
Contains(text, e) ==
    \E i \in 1..(Len(text) - Len(e) + 1) : SubSeq(text, i, i + Len(e) - 1) = e

\* s[:n]
Slice(s, n) == SubSeq(s, 1, IF Len(s) < n THEN Len(s) ELSE n)

RECURSIVE Replace(_, _, _)
\* s.replace(old, new): leftmost, non-overlapping
Replace(s, old, new) ==
    IF Len(s) = 0 THEN <<>>
    ELSE IF StartsWith(s, old)
         THEN new \o Replace(SubSeq(s, Len(old) + 1, Len(s)), old, new)
         ELSE <<Head(s)>> \o Replace(Tail(s), old, new)

RECURSIVE LStrip(_)
LStrip(s) == IF Len(s) > 0 /\ Head(s) = " " THEN LStrip(Tail(s)) ELSE s

RECURSIVE RStrip(_)
RStrip(s) ==
    IF Len(s) > 0 /\ s[Len(s)] = " " THEN RStrip(SubSeq(s, 1, Len(s) - 1)) ELSE s

Strip(s) == RStrip(LStrip(s))

RECURSIVE Join(_, _)
\* sep.join(parts)
Join(parts, sep) ==
    IF Len(parts) = 0 THEN <<>>
    ELSE IF Len(parts) = 1 THEN parts[1]
    ELSE parts[1] \o sep \o Join(Tail(parts), sep)

Upper == <<"A","B","C","D","E","F","G","H","I","J","K","L","M",
           "N","O","P","Q","R","S","T","U","V","W","X","Y","Z">>

Lower == <<"a","b","c","d","e","f","g","h","i","j","k","l","m",
           "n","o","p","q","r","s","t","u","v","w","x","y","z">>

\* characters in code-point order
CodePoints == <<" ", "#", "*", "-", ".", "/">> \o Upper \o <<"[", "\\", "]", "_">> \o Lower

Ord(c) == CHOOSE i \in DOMAIN CodePoints : CodePoints[i] = c

LowerChar(c) ==
    IF \E i \in DOMAIN Upper : Upper[i] = c
    THEN Lower[CHOOSE i \in DOMAIN Upper : Upper[i] = c]
    ELSE c

\* str.lower()
LowerStr(s) == [i \in DOMAIN s |-> LowerChar(s[i])]

RECURSIVE StrLess(_, _)
\* s < t for Python strings
StrLess(s, t) ==
    IF Len(t) = 0 THEN FALSE
    ELSE IF Len(s) = 0 THEN TRUE
    ELSE IF Head(s) = Head(t) THEN StrLess(Tail(s), Tail(t))
    ELSE Ord(Head(s)) < Ord(Head(t))

(***************************************************************************)
(* Pattern Matcher: _convert_pattern_to_regex and re.search.               *)
(***************************************************************************)
ReSpecial == {" ", "#", "*", "-", ".", "[", "\\", "]"}

RECURSIVE re_escape(_)
\* re.escape: a backslash before every special character
re_escape(s) ==
    IF Len(s) = 0 THEN <<>>
    ELSE (IF Head(s) \in ReSpecial THEN <<"\\", Head(s)>> ELSE <<Head(s)>>)
         \o re_escape(Tail(s))

SepClass == <<"[", "\\", "\\", "/", "]">>

convert_pattern_to_regex(pattern) ==
    LET esc   == re_escape(Replace(pattern, <<"/">>, os_sep))
        glob  == Replace(Replace(esc, <<"\\", "*">>, <<".", "*">>),
                         <<"\\", ".">>, <<"\\", ".">>)
        anch  == IF EndsWith(glob, os_sep)
                 THEN <<"^">> \o SubSeq(glob, 1, Len(glob) - 1) \o <<".", "*", "$">>
                 ELSE <<"^">> \o glob \o <<"$">>
    IN  Replace(anch, os_sep, SepClass)

RECURSIVE re_match_at(_, _, _, _)
\* the regex re[i..] matches s starting at position j
re_match_at(re, i, s, j) ==
    IF i > Len(re) THEN TRUE
    ELSE IF re[i] = "^" THEN j = 1 /\ re_match_at(re, i + 1, s, j)
    ELSE IF re[i] = "$" THEN j = Len(s) + 1 /\ re_match_at(re, i + 1, s, j)
    ELSE IF re[i] = "." /\ i < Len(re) /\ re[i + 1] = "*"
         THEN \E k \in j..(Len(s) + 1) : re_match_at(re, i + 2, s, k)
    ELSE IF re[i] = "\\"
         THEN j <= Len(s) /\ s[j] = re[i + 1] /\ re_match_at(re, i + 2, s, j + 1)
    ELSE IF re[i] = "[" /\ SubSeq(re, i, i + 4) = SepClass
         THEN j <= Len(s) /\ s[j] \in {"\\", "/"} /\ re_match_at(re, i + 5, s, j + 1)
    ELSE j <= Len(s) /\ s[j] = re[i] /\ re_match_at(re, i + 1, s, j + 1)

\* re.search(pattern, s) is not None
re_search(re, s) == \E j \in 1..(Len(s) + 1) : re_match_at(re, 1, s, j)

(***************************************************************************)
(* The file system under the project root.  Entries is the universe of     *)
(* directory entries a project may contain; fs (a state variable) is the   *)
(* set of entries that exist.  Entry 0 is the resolved root directory.     *)
(***************************************************************************)
MaxNodes == 3

RootStr == <<"/","p","r","o","j","e","c","t">>

E(name, parent, is_dir) == [name |-> name, parent |-> parent, is_dir |-> is_dir]

Entries == <<
    E(<<"t","e","s","t","s">>, 0, TRUE),                                   \*  1 tests/
    E(<<"d","e","e","p">>, 1, TRUE),                                       \*  2 tests/deep/
    E(<<"f","i","l","e",".","p","y">>, 2, FALSE),                          \*  3 tests/deep/file.py
    E(<<"t","e","s","t","s","_","h","e","l","p","e","r",".","p","y">>, 0, FALSE), \* 4
    E(<<"t","e","s","t","_","u","t","i","l","s",".","p","y">>, 0, FALSE),  \*  5 test_utils.py
    E(<<"t","e","s","t","i","n","g">>, 0, TRUE),                           \*  6 testing/
    E(<<"o","l","d",".","b","a","k">>, 0, TRUE),                           \*  7 old.bak/
    E(<<"a",".","p","y">>, 7, FALSE),                                      \*  8 old.bak/a.py
    E(<<".","g","i","t">>, 0, TRUE),                                       \*  9 .git/
    E(<<"h",".","p","y">>, 9, FALSE),                                      \* 10 .git/h.py
    E(<<".","x",".","p","y">>, 0, FALSE),                                  \* 11 .x.py
    E(<<"b","a","d",".","p","y">>, 0, FALSE),                              \* 12 bad.py
    E(<<"a",".","p","y">>, 0, FALSE),                                      \* 13 a.py
    E(<<"A",".","p","y">>, 0, FALSE),                                      \* 14 A.py
    E(<<"p","k","g">>, 0, TRUE),                                           \* 15 pkg/
    E(<<"b",".","p","y">>, 15, FALSE),                                     \* 16 pkg/b.py
    E(<<"R","E","A","D","M","E",".","m","d">>, 0, FALSE),                  \* 17 README.md
    E(<<"b","i","n",".","p","y">>, 0, FALSE),                              \* 18 bin.py
    E(<<"m","o","d",".","p","y">>, 0, TRUE)                                \* 19 mod.py/
>>

Nodes == DOMAIN Entries

name(n) == Entries[n].name

parent(n) == Entries[n].parent

\* Path.is_dir()
is_dir(n) == n = 0 \/ Entries[n].is_dir

RECURSIVE PathStr(_)
\* str(p) of the absolute path
PathStr(n) == IF n = 0 THEN RootStr ELSE PathStr(parent(n)) \o os_sep \o name(n)

RECURSIVE relative_to_root(_)
\* file_path.relative_to(self.root_dir)
relative_to_root(n) ==
    IF parent(n) = 0 THEN name(n) ELSE relative_to_root(parent(n)) \o os_sep \o name(n)

RECURSIVE Ancestors(_)
\* the proper ancestors of n below the root
Ancestors(n) == IF parent(n) = 0 THEN {} ELSE {parent(n)} \cup Ancestors(parent(n))

\* Path.suffix
suffix(n) ==
    LET nm   == name(n)
        dots == {i \in DOMAIN nm : nm[i] = "."}
        last == CHOOSE i \in dots : \A k \in dots : k <= i
    IN  IF dots # {} /\ 1 < last /\ last < Len(nm) THEN SubSeq(nm, last, Len(nm)) ELSE <<>>

DotPy == <<".","p","y">>

RECURSIVE SetToSeq(_)
\* the members of a set of entries, by ascending index
SetToSeq(S) ==
    IF S = {} THEN <<>>
    ELSE LET m == CHOOSE x \in S : \A y \in S : x <= y
         IN  <<m>> \o SetToSeq(S \ {m})

Reverse(s) == [i \in DOMAIN s |-> s[Len(s) + 1 - i]]

\* os.scandir / Path.iterdir: the entries of d in the order the OS returns them;
\* the order is not specified, order picks one of two (by index, up or down)
iterdir(d, order) ==
    LET asc == SetToSeq({n \in fs : parent(n) = d})
    IN  IF order = "fwd" THEN asc ELSE Reverse(asc)

\* listing d raises OSError: the root is missing (FileNotFoundError), or d may
\* not be read (PermissionError)
listing_fails(d) == (d = 0 /\ ~root_exists) \/ d \in denied

(***************************************************************************)
(* Tree Walker: _generate_structure and _tree_walk.                        *)
(***************************************************************************)
\* any(re.search(pattern, str(p)) for pattern in self.ignore_patterns)
is_ignored(n) == \E pattern \in ignore_patterns : re_search(pattern, PathStr(n))

\* p.name.startswith(".")
is_hidden(n) == StartsWith(name(n), <<".">>)

\* the filter of the list comprehension in _tree_walk
walk_keeps(n) == ~is_hidden(n) /\ ~is_ignored(n)

\* key=lambda p: (not p.is_dir(), p.name.lower()) : a sorts strictly before b
key_less(a, b) ==
    \/ is_dir(a) /\ ~is_dir(b)
    \/ is_dir(a) = is_dir(b) /\ StrLess(LowerStr(name(a)), LowerStr(name(b)))

RECURSIVE sorted(_)
\* sorted(list, key=...): stable, so equal keys keep their listing order
sorted(s) ==
    IF Len(s) = 0 THEN <<>>
    ELSE LET front == sorted(SubSeq(s, 1, Len(s) - 1))
             x     == s[Len(s)]
             k     == Cardinality({i \in DOMAIN front : ~key_less(x, front[i])})
         IN  SubSeq(front, 1, k) \o <<x>> \o SubSeq(front, k + 1, Len(front))

walk_items(d, order) == sorted(SelectSeq(iterdir(d, order), walk_keeps))

\* the box-drawing connectors and continuations, in ASCII
ConnLast == "+-- "

ConnMid == "|-- "

ContLast == "    "

ContMid == "|   "

\* f"{prefix}{connector}{path.name}" with "/" appended for a directory
Line(n, prefix, is_last) ==
    [kind   |-> "tree",
     node   |-> n,
     prefix |-> prefix,
     conn   |-> IF is_last THEN ConnLast ELSE ConnMid,
     text   |-> IF is_dir(n) THEN name(n) \o <<"/">> ELSE name(n)]

RECURSIVE tree_walk(_, _, _)
RECURSIVE tree_walk_from(_, _, _, _)
RECURSIVE tree_walk_from_abort(_, _, _, _)
\* the loop as it would be if the OSError of a sub-directory ended it
tree_walk_from_abort(items, i, prefix, order) ==
    IF i > Len(items) THEN <<>>
    ELSE LET path    == items[i]
             is_last == i = Len(items)
             here    == IF is_dir(path)
                        THEN <<Line(path, prefix, is_last)>>
                             \o tree_walk(path, prefix \o <<IF is_last THEN ContLast ELSE ContMid>>,
                                          order)
                        ELSE IF suffix(path) = DotPy
                             THEN <<Line(path, prefix, is_last)>>
                             ELSE <<>>
         IN  IF is_dir(path) /\ listing_fails(path)
             THEN here
             ELSE here \o tree_walk_from_abort(items, i + 1, prefix, order)

\* the for loop of _tree_walk over items[i..]
tree_walk_from(items, i, prefix, order) ==
    IF i > Len(items) THEN <<>>
    ELSE LET path    == items[i]
             is_last == i = Len(items)
             here    == IF is_dir(path)
                        THEN <<Line(path, prefix, is_last)>>
                             \o tree_walk(path, prefix \o <<IF is_last THEN ContLast ELSE ContMid>>,
                                          order)
                        ELSE IF suffix(path) = DotPy
                             THEN <<Line(path, prefix, is_last)>>
                             ELSE <<>>
         IN  here \o tree_walk_from(items, i + 1, prefix, order)

\* logging.error(f"Directory traversal error: {e}")
TraversalError(d) == [kind |-> "error", node |-> d]

\* _tree_walk(current_dir, handle, prefix): the lines it writes and the errors
\* it logs, in order; an OSError from the listing ends this call only
tree_walk(current_dir, prefix, order) ==
    IF listing_fails(current_dir)
    THEN <<TraversalError(current_dir)>>
    ELSE tree_walk_from(walk_items(current_dir, order), 1, prefix, order)

\* _generate_structure: the root line, then the walk from the root
generate_structure(order) ==
    <<[kind |-> "tree", node |-> 0, prefix |-> <<>>, conn |-> "",
       text |-> SubSeq(RootStr, 2, Len(RootStr)) \o <<"/">>]>> \o tree_walk(0, <<>>, order)

IsTreeLine(e) == e.kind = "tree"

IsErrorRecord(e) == e.kind = "error"

(***************************************************************************)
(* Path.rglob("*.py"): every directory of the tree, parent before its      *)
(* sub-directories, each listed in scandir order; hidden entries are       *)
(* matched like any other.  A directory that may not be listed yields      *)
(* nothing (pathlib swallows PermissionError), a missing root yields       *)
(* nothing (select_from returns an empty iterator).                        *)
(***************************************************************************)
glob_matches(n) == EndsWith(name(n), DotPy)

RECURSIVE rglob(_)
RECURSIVE rglob_subdirs(_, _)
rglob_subdirs(entries, i) ==
    IF i > Len(entries) THEN <<>>
    ELSE (IF is_dir(entries[i]) THEN rglob(entries[i]) ELSE <<>>)
         \o rglob_subdirs(entries, i + 1)

rglob(d) ==
    IF listing_fails(d) THEN <<>>
    ELSE SelectSeq(iterdir(d, scan_order), glob_matches)
         \o rglob_subdirs(iterdir(d, scan_order), 1)

(***************************************************************************)
(* Declaration Extractor: ast.parse, _process_file, _handle_code_element.  *)
(***************************************************************************)
PreviewLen == 100

NoDocumentation == <<"N","o"," ","d","o","c","u","m","e","n","t","a","t","i","o","n">>

Ellipsis == <<".",".",".">>

ComputesX == <<"C","o","m","p","u","t","e","s"," ","X",".">>

Xs(n) == [i \in 1..n |-> "x"]

\* an AST statement: its node type, name, docstring (when has_doc) and body
Stmt(type, nm, has_doc, doc, body) ==
    [type |-> type, name |-> nm, has_doc |-> has_doc, doc |-> doc, body |-> body]

Def(nm) == Stmt("FunctionDef", nm, FALSE, <<>>, <<>>)

Parsed(body) == [status |-> "ok", body |-> body]

Raises(exc) == [status |-> exc, body |-> <<>>]

\* what py_file.open, f.read and ast.parse yield for each file
Sources == [n \in Nodes |->
    CASE n = 3  -> Parsed(<<Stmt("FunctionDef", <<"n">>, TRUE, NoDocumentation, <<>>)>>)
      [] n = 4  -> Parsed(<<>>)
      [] n = 5  -> Parsed(<<Stmt("AsyncFunctionDef", <<"g">>, FALSE, <<>>, <<>>),
                            Def(<<"f">>)>>)
      [] n = 8  -> Parsed(<<Stmt("ClassDef", <<"K">>, FALSE, <<>>, <<>>)>>)
      [] n = 10 -> Parsed(<<Def(<<"f">>)>>)
      [] n = 11 -> Parsed(<<Stmt("FunctionDef", <<"f">>, TRUE, ComputesX, <<>>)>>)
      [] n = 12 -> Raises("SyntaxError")
      [] n = 13 -> Parsed(<<Stmt("FunctionDef", <<"f">>, TRUE, ComputesX, <<Def(<<"i">>)>>),
                            Stmt("ClassDef", <<"K">>, FALSE, <<>>, <<Def(<<"m">>)>>)>>)
      [] n = 14 -> Parsed(<<Stmt("FunctionDef", <<"f">>, TRUE, Xs(PreviewLen), <<>>),
                            Stmt("FunctionDef", <<"g">>, TRUE, Xs(PreviewLen + 1), <<>>),
                            Stmt("ClassDef", <<"W">>, TRUE, <<" ", " ">>, <<>>),
                            Stmt("ClassDef", <<"L">>, TRUE, <<" ">> \o ComputesX, <<>>)>>)
      [] n = 16 -> Parsed(<<Stmt("If", <<>>, FALSE, <<>>, <<Def(<<"c">>)>>),
                            Stmt("ClassDef", <<"K">>, TRUE, ComputesX, <<>>)>>)
      [] n = 18 -> Raises("UnicodeDecodeError")
      [] OTHER  -> Parsed(<<>>)]

\* py_file.open(...) then ast.parse(f.read()): opening a directory raises OSError
ast_parse(n) == IF is_dir(n) THEN Raises("OSError") ELSE Sources[n]

\* inspect.cleandoc on a one-line docstring: leading whitespace is removed
cleandoc(doc) == LStrip(doc)

\* ast.get_docstring(node) or "No documentation"
docstring_of(node) ==
    LET got == IF node.has_doc THEN cleandoc(node.doc) ELSE <<>>
    IN  IF Len(got) = 0 THEN NoDocumentation ELSE got

element_type(node) == IF node.type = "ClassDef" THEN "Class" ELSE "Function"

\* the two lines _handle_code_element writes to the summary
element_summary(node, rel_path) ==
    <<[kind |-> "element", type |-> element_type(node), name |-> node.name],
      [kind |-> "doc", text |-> Slice(docstring_of(node), PreviewLen) \o Ellipsis]>>

\* the line _handle_code_element writes to the undocumented-elements file
element_undocumented(node, rel_path) ==
    IF docstring_of(node) = NoDocumentation
    THEN <<[kind |-> "undocumented", file |-> rel_path, type |-> element_type(node),
            name |-> node.name]>>
    ELSE <<>>

\* isinstance(node, (ast.ClassDef, ast.FunctionDef))
is_code_element(node) == node.type \in {"ClassDef", "FunctionDef"}

\* the nodes of module.body that _process_file hands to _handle_code_element
code_elements(body) == SelectSeq(body, is_code_element)

RECURSIVE elements_summary(_, _)
\* the for loop of _process_file: the summary lines of the elements, in order
elements_summary(els, rel_path) ==
    IF Len(els) = 0 THEN <<>>
    ELSE element_summary(Head(els), rel_path) \o elements_summary(Tail(els), rel_path)

RECURSIVE elements_undocumented(_, _)
\* the for loop of _process_file: the undocumented-elements lines, in order
elements_undocumented(els, rel_path) ==
    IF Len(els) = 0 THEN <<>>
    ELSE element_undocumented(Head(els), rel_path)
         \o elements_undocumented(Tail(els), rel_path)

\* variant: a file without declarations gets no section
process_file_summary_nonempty(n, body) ==
    IF Len(code_elements(body)) = 0 THEN <<>>
    ELSE <<[kind |-> "file", node |-> n, path |-> relative_to_root(n)]>>
         \o elements_summary(code_elements(body), relative_to_root(n))

\* _process_file: what it appends to the summary
process_file_summary(n, body) ==
    <<[kind |-> "file", node |-> n, path |-> relative_to_root(n)]>>
    \o elements_summary(code_elements(body), relative_to_root(n))

\* _process_file: what it appends to the undocumented-elements file
process_file_undocumented(n, body) ==
    elements_undocumented(code_elements(body), relative_to_root(n))

(***************************************************************************)
(* Report Writer side effect: _update_gitignore on the output directory.   *)
(***************************************************************************)
NL == "\n"

GitignoreEntries == <<
    <<"#"," ","P","r","o","j","e","c","t"," ","a","n","a","l","y","s","i","s"," ",
      "o","u","t","p","u","t","s">>,
    <<"p","r","o","j","e","c","t","_","s","u","m","m","a","r","y","_","*",".","t","x","t">>,
    <<"u","n","d","o","c","u","m","e","n","t","e","d","_","c","o","d","e","_","*",".",
      "t","x","t">>,
    <<"b","a","c","k","u","p","s","/">> >>

NoFile == [exists |-> FALSE, text |-> <<>>]

TextFile(text) == [exists |-> TRUE, text |-> text]

\* variant: the entries are appended without looking at the existing content
missing_entries_unguarded(file) == GitignoreEntries

\* entries = [e for e in entries if e not in existing]
missing_entries(file) ==
    IF file.exists
    THEN SelectSeq(GitignoreEntries, LAMBDA e : ~Contains(file.text, e))
    ELSE GitignoreEntries

\* _update_gitignore: the file it leaves behind
update_gitignore(file) ==
    IF Len(missing_entries(file)) > 0
    THEN TextFile(file.text \o <<NL>> \o Join(missing_entries(file), <<NL>>))
    ELSE file

(***************************************************************************)
(* load_gitignore_patterns                                                 *)
(***************************************************************************)
DefaultAddons == <<
    <<"t","e","s","t","s","/">>,
    <<"b","a","c","k","u","p","s","/">>,
    <<"d","o","c","s","/">>,
    <<"t","e","s","t","*">>,
    <<"_","*">> >>

\* line.strip() and not line.startswith("#")
is_pattern_line(line) == Len(Strip(line)) > 0 /\ ~StartsWith(line, <<"#">>)

\* the raw pattern list: the kept lines of the project's .gitignore, then the addons
raw_patterns(gitignore, addons) ==
    (IF gitignore.exists
     THEN LET kept == SelectSeq(gitignore.lines, is_pattern_line)
          IN  [i \in DOMAIN kept |-> Strip(kept[i])]
     ELSE <<>>) \o addons

\* list({self._convert_pattern_to_regex(p) for p in patterns})
load_gitignore_patterns(gitignore, addons) ==
    LET patterns == raw_patterns(gitignore, addons)
    IN  {convert_pattern_to_regex(patterns[i]) : i \in DOMAIN patterns}

(***************************************************************************)
(* src/src/llm_cli.py: comunicate_with_llm and comunicate_with_llm_cached. *)
(***************************************************************************)
Maxsize == 128

MaxCalls == 2

None == [some |-> FALSE, text |-> <<>>]

Some(text) == [some |-> TRUE, text |-> text]

Prompts == {<<"a">>, <<"b">>}

\* the keyword arguments of a call: the model name
Options == {"m1", "m2"}

\* what the server does with a request
Responses == {
    [kind |-> "ok", content |-> <<" ","h","i"," ">>],
    [kind |-> "ok", content |-> <<"y","o">>],
    [kind |-> "http_error", content |-> <<>>],
    [kind |-> "connection_error", content |-> <<>>],
    [kind |-> "bad_body", content |-> <<>>] }

Returned(value, requests) ==
    [outcome |-> "returned", value |-> value, exc |-> "", requests |-> requests]

Raised(exc, requests) ==
    [outcome |-> "raised", value |-> None, exc |-> exc, requests |-> requests]

\* the try block: requests.post, raise_for_status, the content of the first
\* choice stripped; RequestException is caught, anything else propagates
post_and_extract(response) ==
    CASE response.kind = "ok" -> Returned(Some(Strip(response.content)), 1)
      [] response.kind \in {"http_error", "connection_error"} -> Returned(None, 1)
      [] response.kind = "bad_body" -> Raised("KeyError", 1)

comunicate_with_llm(prompt, options, response) == post_and_extract(response)

\* hashlib.md5(prompt.encode("utf-8")).hexdigest()
md5_hexdigest(prompt) == <<"md5">> \o prompt

\* comunicate_with_llm_cached.cache_info(): a fresh CacheInfo tuple of counters
cache_info == [hits |-> cache_hits, misses |-> cache_misses,
               maxsize |-> Maxsize, currsize |-> Len(lru)]

\* the body of comunicate_with_llm_cached: "cache_key in cache_info().hits"
\* raises TypeError when hits is a number
comunicate_with_llm_cached_body(prompt, options, response) ==
    LET cache_key == md5_hexdigest(prompt)
        hits      == cache_info.hits
    IN  IF hits \in Int
        THEN Raised("TypeError", 0)
        ELSE IF cache_key \in DOMAIN hits
             THEN Returned(hits[cache_key], 0)
             ELSE post_and_extract(response)

\* the key lru_cache builds from the positional and keyword arguments
make_key(prompt, options) == <<prompt, options>>

CachedAt(key) == {i \in DOMAIN lru : lru[i].key = key}

LLMInit ==
    /\ lru = <<>>
    /\ cache_hits = 0
    /\ cache_misses = 0
    /\ calls = <<>>

(***************************************************************************)
(* Inputs of a run.                                                        *)
(***************************************************************************)
MaxSmall == 1

MaxRuns == 2

MaxDenied == 1

\* the project trees: at most MaxNodes entries, every entry inside its parent
Trees == {t \in SUBSET Nodes :
            /\ Cardinality(t) <= MaxNodes
            /\ \A n \in t : parent(n) = 0 \/ parent(n) \in t}

\* the .gitignore of the project root: none, or one of two rule files
ProjectGitignores == {
    [exists |-> FALSE, lines |-> <<>>],
    [exists |-> TRUE,  lines |-> << <<"#"," ","b","a","k">>, <<>>, <<"*",".","b","a","k">> >>],
    [exists |-> TRUE,  lines |-> << <<" ","*",".","b","a","k","/"," ">> >>] }

RECURSIVE LinesOf(_)
\* the text of a file holding the generated entries with the given indices
LinesOf(idx) ==
    IF Len(idx) = 0 THEN <<>>
    ELSE GitignoreEntries[Head(idx)] \o <<NL>> \o LinesOf(Tail(idx))

\* the .gitignore of the output directory before the first run
OutGitignores ==
    {NoFile} \cup {TextFile(LinesOf(SetToSeq(S))) : S \in SUBSET DOMAIN GitignoreEntries}

\* the orders in which the operating system may enumerate a directory
ScanOrders == {"fwd", "rev"}

Header == [kind |-> "header"]

Init ==
    /\ pc = "main"
    /\ fs \in Trees
    /\ root_exists \in BOOLEAN
    /\ denied \in {D \in SUBSET ({0} \cup {n \in fs : is_dir(n)}) : Cardinality(D) <= MaxDenied}
    /\ ~root_exists => fs = {} /\ denied = {}
    /\ project_gitignore \in ProjectGitignores
    /\ scan_order \in ScanOrders
    /\ no_gitignore \in BOOLEAN
    /\ out_gitignore \in OutGitignores
    /\ (no_gitignore \/ out_gitignore # NoFile) =>
          /\ Cardinality(fs) <= MaxSmall
          /\ ~project_gitignore.exists
          /\ scan_order = "fwd"
    /\ (~root_exists \/ denied # {}) =>
          /\ ~project_gitignore.exists
          /\ scan_order = "fwd"
          /\ ~no_gitignore
          /\ out_gitignore = NoFile
    /\ errors = <<>>
    /\ LLMInit
    /\ ignore_patterns = {}
    /\ summary = <<>>
    /\ undocumented = <<>>
    /\ todo = <<>>
    /\ warnings = <<>>
    /\ updates = 0
    /\ runs = 1
    /\ exit_code = -1

(***************************************************************************)
(* main and generate_summary, one action per step.                         *)
(***************************************************************************)
inputs == <<fs, root_exists, denied, project_gitignore, scan_order, no_gitignore, runs>>

\* main: analyzer.load_gitignore_patterns()
LoadGitignorePatterns ==
    /\ pc = "main"
    /\ ignore_patterns' = load_gitignore_patterns(project_gitignore, DefaultAddons)
    /\ pc' = "generate_summary"
    /\ UNCHANGED llm_vars
    /\ UNCHANGED <<inputs, errors, summary, undocumented, todo, warnings, out_gitignore,
                   updates, exit_code>>

\* generate_summary: both artifacts are opened for writing and get their headers
WriteFileHeaders ==
    /\ pc = "generate_summary"
    /\ summary' = <<Header>>
    /\ undocumented' = <<Header>>
    /\ pc' = "structure"
    /\ UNCHANGED llm_vars
    /\ UNCHANGED <<inputs, errors, ignore_patterns, todo, warnings, out_gitignore,
                   updates, exit_code>>

\* generate_summary: self._generate_structure(sf)
GenerateStructure ==
    /\ pc = "structure"
    /\ LET written == generate_structure(scan_order)
       IN  /\ summary' = summary \o SelectSeq(written, IsTreeLine)
           /\ errors' = errors \o SelectSeq(written, IsErrorRecord)
    /\ todo' = rglob(0)
    /\ pc' = "analyze"
    /\ UNCHANGED llm_vars
    /\ UNCHANGED <<inputs, ignore_patterns, undocumented, warnings, out_gitignore,
                   updates, exit_code>>

\* _analyze_code: the file matches an ignore rule and is passed over
AnalyzeIgnored ==
    /\ pc = "analyze" /\ Len(todo) > 0
    /\ is_ignored(Head(todo))
    /\ todo' = Tail(todo)
    /\ UNCHANGED llm_vars
    /\ UNCHANGED <<pc, inputs, errors, ignore_patterns, summary, undocumented, warnings,
                   out_gitignore, updates, exit_code>>

\* _analyze_code: the file parses and _process_file writes its section
AnalyzeProcessFile ==
    /\ pc = "analyze" /\ Len(todo) > 0
    /\ ~is_ignored(Head(todo))
    /\ ast_parse(Head(todo)).status = "ok"
    /\ summary' = summary \o process_file_summary(Head(todo), ast_parse(Head(todo)).body)
    /\ undocumented' = undocumented
                       \o process_file_undocumented(Head(todo), ast_parse(Head(todo)).body)
    /\ todo' = Tail(todo)
    /\ UNCHANGED llm_vars
    /\ UNCHANGED <<pc, inputs, errors, ignore_patterns, warnings, out_gitignore, updates,
                   exit_code>>

\* variant: the section header is written before the file is parsed
AnalyzeSkipped_header_first ==
    /\ pc = "analyze" /\ Len(todo) > 0
    /\ ~is_ignored(Head(todo))
    /\ ast_parse(Head(todo)).status \in {"SyntaxError", "UnicodeDecodeError"}
    /\ summary' = Append(summary, [kind |-> "file", node |-> Head(todo),
                                   path |-> relative_to_root(Head(todo))])
    /\ warnings' = Append(warnings, Head(todo))
    /\ todo' = Tail(todo)
    /\ UNCHANGED llm_vars
    /\ UNCHANGED <<pc, inputs, errors, ignore_patterns, undocumented, out_gitignore,
                   updates, exit_code>>

\* _analyze_code: except (SyntaxError, UnicodeDecodeError): warning, next file
AnalyzeSkipped ==
    /\ pc = "analyze" /\ Len(todo) > 0
    /\ ~is_ignored(Head(todo))
    /\ ast_parse(Head(todo)).status \in {"SyntaxError", "UnicodeDecodeError"}
    /\ warnings' = Append(warnings, Head(todo))
    /\ todo' = Tail(todo)
    /\ UNCHANGED llm_vars
    /\ UNCHANGED <<pc, inputs, errors, ignore_patterns, summary, undocumented, out_gitignore,
                   updates, exit_code>>

\* main: logging.error(f"Analysis failed: {str(e)}")
AnalysisFailed == [kind |-> "fatal"]

\* _analyze_code: any other exception leaves generate_summary; main logs it and
\* calls sys.exit(1)
AnalyzeRaises ==
    /\ pc = "analyze" /\ Len(todo) > 0
    /\ ~is_ignored(Head(todo))
    /\ ast_parse(Head(todo)).status \notin {"ok", "SyntaxError", "UnicodeDecodeError"}
    /\ pc' = "failed"
    /\ exit_code' = 1
    /\ errors' = Append(errors, AnalysisFailed)
    /\ UNCHANGED llm_vars
    /\ UNCHANGED <<inputs, ignore_patterns, summary, undocumented, todo, warnings,
                   out_gitignore, updates>>

\* generate_summary: the loop is over, self._update_gitignore()
UpdateGitignore ==
    /\ pc = "analyze" /\ Len(todo) = 0
    /\ out_gitignore' = update_gitignore(out_gitignore)
    /\ updates' = updates + 1
    /\ pc' = "generated"
    /\ UNCHANGED llm_vars
    /\ UNCHANGED <<inputs, errors, ignore_patterns, summary, undocumented, todo, warnings,
                   exit_code>>

\* main: if not args.no_gitignore: analyzer._update_gitignore(); then the report
MainUpdateGitignore ==
    /\ pc = "generated"
    /\ IF ~no_gitignore
       THEN /\ out_gitignore' = update_gitignore(out_gitignore)
            /\ updates' = updates + 1
       ELSE UNCHANGED <<out_gitignore, updates>>
    /\ pc' = "done"
    /\ exit_code' = 0
    /\ UNCHANGED llm_vars
    /\ UNCHANGED <<inputs, errors, ignore_patterns, summary, undocumented, todo, warnings>>

\* the tool is started again on the same project and output directory
Rerun ==
    /\ pc = "done"
    /\ runs < MaxRuns
    /\ runs' = runs + 1
    /\ pc' = "main"
    /\ ignore_patterns' = {}
    /\ summary' = <<>>
    /\ undocumented' = <<>>
    /\ warnings' = <<>>
    /\ errors' = <<>>
    /\ exit_code' = -1
    /\ UNCHANGED llm_vars
    /\ UNCHANGED <<fs, root_exists, denied, project_gitignore, scan_order, no_gitignore, todo,
                   out_gitignore, updates>>

Next ==
    \/ LoadGitignorePatterns
    \/ WriteFileHeaders
    \/ GenerateStructure
    \/ AnalyzeIgnored
    \/ AnalyzeProcessFile
    \/ AnalyzeSkipped
    \/ AnalyzeRaises
    \/ UpdateGitignore
    \/ MainUpdateGitignore
    \/ Rerun

Spec == Init /\ [][Next]_vars

(***************************************************************************)
(* A process that calls the two request functions of llm_cli.py.           *)
(***************************************************************************)
summerizer_vars == <<pc, fs, root_exists, denied, project_gitignore, scan_order,
                     no_gitignore, ignore_patterns, summary, undocumented, todo,
                     warnings, errors, out_gitignore, updates, runs, exit_code>>

CallRecord(fn, prompt, options, response, r) ==
    [fn |-> fn, prompt |-> prompt, options |-> options, response |-> response,
     outcome |-> r.outcome, value |-> r.value, exc |-> r.exc, requests |-> r.requests]

\* a call of comunicate_with_llm(prompt, model=options)
CallUncached ==
    /\ Len(calls) < MaxCalls
    /\ \E prompt \in Prompts, options \in Options, response \in Responses :
          calls' = Append(calls, CallRecord("comunicate_with_llm", prompt, options, response,
                                            comunicate_with_llm(prompt, options, response)))
    /\ UNCHANGED <<lru, cache_hits, cache_misses>>
    /\ UNCHANGED summerizer_vars

\* a call of comunicate_with_llm_cached(prompt, model=options) through the
\* lru_cache wrapper: a stored result is returned, otherwise the body runs and
\* its result is stored unless it raised
CallCached ==
    /\ Len(calls) < MaxCalls
    /\ \E prompt \in Prompts, options \in Options, response \in Responses :
          LET key == make_key(prompt, options)
          IN  IF CachedAt(key) # {}
              THEN LET i == CHOOSE i \in CachedAt(key) : TRUE
                   IN  /\ cache_hits' = cache_hits + 1
                       /\ lru' = SubSeq(lru, 1, i - 1) \o SubSeq(lru, i + 1, Len(lru))
                                   \o <<lru[i]>>
                       /\ calls' = Append(calls,
                                      CallRecord("comunicate_with_llm_cached", prompt, options,
                                                 response, Returned(lru[i].value, 0)))
                       /\ UNCHANGED cache_misses
              ELSE LET r == comunicate_with_llm_cached_body(prompt, options, response)
                   IN  /\ cache_misses' = cache_misses + 1
                       /\ lru' = IF r.outcome = "raised" THEN lru
                                 ELSE (IF Len(lru) >= Maxsize THEN Tail(lru) ELSE lru)
                                      \o <<[key |-> key, value |-> r.value]>>
                       /\ calls' = Append(calls,
                                      CallRecord("comunicate_with_llm_cached", prompt, options,
                                                 response, r))
                       /\ UNCHANGED cache_hits
    /\ UNCHANGED summerizer_vars

InitLLM ==
    /\ LLMInit
    /\ pc = "main"
    /\ fs = {}
    /\ root_exists = TRUE
    /\ denied = {}
    /\ project_gitignore = [exists |-> FALSE, lines |-> <<>>]
    /\ scan_order = "fwd"
    /\ no_gitignore = FALSE
    /\ out_gitignore = NoFile
    /\ ignore_patterns = {}
    /\ summary = <<>>
    /\ undocumented = <<>>
    /\ todo = <<>>
    /\ warnings = <<>>
    /\ errors = <<>>
    /\ updates = 0
    /\ runs = 1
    /\ exit_code = -1

NextLLM ==
    \/ CallUncached
    \/ CallCached

SpecLLM == InitLLM /\ [][NextLLM]_vars

(***************************************************************************)
(* Observations of the two artifacts.                                      *)
(***************************************************************************)
TreeLines == {i \in DOMAIN summary : summary[i].kind = "tree"}

FileLines == {i \in DOMAIN summary : summary[i].kind = "file"}

\* n has a line in the rendered tree
HasTreeLine(n) == \E i \in TreeLines : summary[i].node = n

\* the number of "File:" sections of n in the summary
SectionCount(n) == Cardinality({i \in FileLines : summary[i].node = n})

HasSection(n) == SectionCount(n) > 0

\* the lines of the section that starts at the "File:" line i
SectionLines(i) ==
    LET later == {j \in FileLines : j > i}
        last  == IF later = {} THEN Len(summary)
                 ELSE (CHOOSE j \in later : \A k \in later : j <= k) - 1
    IN  SubSeq(summary, i + 1, last)

\* the number of lines of the undocumented-elements artifact for (file, kind, name)
UndocumentedCount(file, type, nm) ==
    Cardinality({i \in DOMAIN undocumented :
                    /\ undocumented[i].kind = "undocumented"
                    /\ undocumented[i].file = file
                    /\ undocumented[i].type = type
                    /\ undocumented[i].name = nm})

\* the undocumented-elements artifact has a line for file n
HasUndocumentedLine(n) ==
    \E i \in DOMAIN undocumented :
        /\ undocumented[i].kind = "undocumented"
        /\ undocumented[i].file = relative_to_root(n)

\* d and everything beneath it
Beneath(d) == {n \in fs : n = d \/ d \in Ancestors(n)}

\* every directory from the root down to n can be listed
Enumerable(n) == \A a \in {0} \cup Ancestors(n) : ~listing_fails(a)

\* the root and every directory of the project can be listed
AllReadable == root_exists /\ denied = {}

\* a regular file named *.py
IsPyFile(n) == ~is_dir(n) /\ suffix(n) = DotPy

StructureRendered == pc \in {"analyze", "generated", "done", "failed"}

SummaryComplete == pc \in {"generated", "done"}

\* the documentation text of a declaration, if it has any
HasDocText(node) == node.has_doc /\ Len(Strip(node.doc)) > 0

KindOf(node) == IF node.type = "ClassDef" THEN "Class" ELSE "Function"

(***************************************************************************)
(* C1: a directory matched by an ignore rule is pruned: neither it nor     *)
(* anything beneath it has a tree line, a "File:" section or an            *)
(* undocumented-elements line.                                             *)
(***************************************************************************)
C1_MatchedDirectoryPruned ==
    \A d \in fs :
        (is_dir(d) /\ is_ignored(d)) =>
            \A n \in Beneath(d) :
                ~HasTreeLine(n) /\ ~HasSection(n) /\ ~HasUndocumentedLine(n)

(***************************************************************************)
(* C2: when every directory can be listed and every file parses, each .py  *)
(* file not matched by a rule has exactly one "File:" section, and the     *)
(* sections come in depth-first pre-order with siblings directories-first, *)
(* then alphabetical.                                                      *)
(***************************************************************************)
RECURSIVE PreOrder(_)
RECURSIVE PreOrderFrom(_, _)
PreOrderFrom(items, i) ==
    IF i > Len(items) THEN <<>>
    ELSE (IF is_dir(items[i]) THEN PreOrder(items[i]) ELSE <<items[i]>>)
         \o PreOrderFrom(items, i + 1)

PreOrder(d) == PreOrderFrom(sorted(iterdir(d, scan_order)), 1)

Reported(n) == IsPyFile(n) /\ ~is_ignored(n)

SectionOrder ==
    LET files == SelectSeq(summary, LAMBDA l : l.kind = "file")
    IN  [i \in DOMAIN files |-> files[i].node]

C2_OneSectionEachInWalkOrder ==
    (SummaryComplete /\ Len(warnings) = 0 /\ AllReadable) =>
        /\ \A n \in fs : Reported(n) => SectionCount(n) = 1
        /\ SectionOrder = SelectSeq(PreOrder(0), Reported)

(***************************************************************************)
(* C3 (as stated): after generate_summary every .py file with a tree line  *)
(* has a "File:" section, unparseable files included, and no file matched  *)
(* by a rule has one.                                                      *)
(***************************************************************************)
C3_EveryTreeFileHasSection ==
    SummaryComplete =>
        /\ \A n \in fs : (IsPyFile(n) /\ HasTreeLine(n)) => HasSection(n)
        /\ \A n \in fs : (IsPyFile(n) /\ is_ignored(n)) => ~HasSection(n)

(***************************************************************************)
(* C3 (amended): after generate_summary every .py file with a tree line    *)
(* that parsed successfully has a "File:" section, and no file matched by  *)
(* a rule has one.                                                         *)
(***************************************************************************)
C3_EveryParsedTreeFileHasSection ==
    SummaryComplete =>
        /\ \A n \in fs : (IsPyFile(n) /\ HasTreeLine(n) /\ Sources[n].status = "ok")
                            => HasSection(n)
        /\ \A n \in fs : (IsPyFile(n) /\ is_ignored(n)) => ~HasSection(n)

C3_Witness ==
    /\ pc = "done"
    /\ \E n \in fs : IsPyFile(n) /\ HasTreeLine(n) /\ HasSection(n)
    /\ \E n \in fs : IsPyFile(n) /\ is_ignored(n) /\ ~HasSection(n)

(***************************************************************************)
(* C4: under the default rules the walker leaves out tests/ and            *)
(* tests/deep/file.py ("tests/"), test_utils.py and testing/ ("test*"),    *)
(* and keeps tests_helper.py.                                              *)
(***************************************************************************)
C4_DefaultRulesExclude ==
    StructureRendered =>
        /\ 1 \in fs => ~HasTreeLine(1)
        /\ 3 \in fs => ~HasTreeLine(3)
        /\ 5 \in fs => ~HasTreeLine(5)
        /\ 6 \in fs => ~HasTreeLine(6)
        /\ 4 \in fs => HasTreeLine(4)

(***************************************************************************)
(* C5: each analysed declaration has exactly one undocumented-elements     *)
(* line if it has no documentation text, and none if it has some.          *)
(***************************************************************************)
C5_UndocumentedIffNoText ==
    \A i \in FileLines :
        LET n   == summary[i].node
            els == code_elements(Sources[n].body)
        IN  \A k \in DOMAIN els :
                UndocumentedCount(relative_to_root(n), KindOf(els[k]), els[k].name)
                    = IF HasDocText(els[k]) THEN 0 ELSE 1

(***************************************************************************)
(* C6: the preview of a declaration is its documentation text when that    *)
(* has at most 100 characters, the first 100 characters and an ellipsis    *)
(* when it is longer, and "No documentation" when there is none.           *)
(***************************************************************************)
ExpectedPreview(node) ==
    LET text == cleandoc(node.doc)
    IN  IF ~HasDocText(node) THEN NoDocumentation
        ELSE IF Len(text) <= PreviewLen THEN text
        ELSE SubSeq(text, 1, PreviewLen) \o Ellipsis

C6_PreviewText ==
    \A i \in FileLines :
        LET lines == SectionLines(i)
            body  == Sources[summary[i].node].body
        IN  \A j \in DOMAIN lines :
                lines[j].kind = "element" =>
                    /\ j < Len(lines)
                    /\ lines[j + 1].kind = "doc"
                    /\ \E k \in DOMAIN body :
                          /\ body[k].name = lines[j].name
                          /\ lines[j + 1].text = ExpectedPreview(body[k])

(***************************************************************************)
(* C7: the section of a parsed file lists, in source order, exactly its    *)
(* top-level classes and functions, asynchronous functions included, and   *)
(* nothing nested.                                                         *)
(***************************************************************************)
IsDeclaration(node) == node.type \in {"ClassDef", "FunctionDef", "AsyncFunctionDef"}

Listed(lines) ==
    LET els == SelectSeq(lines, LAMBDA l : l.kind = "element")
    IN  [j \in DOMAIN els |-> <<els[j].type, els[j].name>>]

C7_TopLevelDeclarationsListed ==
    \A i \in FileLines :
        LET decls == SelectSeq(Sources[summary[i].node].body, IsDeclaration)
        IN  Listed(SectionLines(i)) = [k \in DOMAIN decls |-> <<KindOf(decls[k]), decls[k].name>>]

(***************************************************************************)
(* C8: once _update_gitignore has run, no later update changes the output  *)
(* directory's .gitignore, and each generated entry occurs in it once.     *)
(***************************************************************************)
\* the number of places of the file's text at which the entry e occurs
Occurrences(file, e) ==
    Cardinality({i \in 1..(Len(file.text) - Len(e) + 1) :
                    SubSeq(file.text, i, i + Len(e) - 1) = e})

C8_UpdateIdempotent ==
    /\ [][updates >= 1 => out_gitignore' = out_gitignore]_vars
    /\ [](updates >= 1 =>
            \A k \in DOMAIN GitignoreEntries : Occurrences(out_gitignore, GitignoreEntries[k]) = 1)

C8_Witness ==
    /\ updates >= 2
    /\ runs = 2
    /\ pc = "done"
    /\ \A k \in DOMAIN GitignoreEntries : Occurrences(out_gitignore, GitignoreEntries[k]) = 1

(***************************************************************************)
(* C9: a file that fails to parse is skipped with a warning: the step      *)
(* writes nothing to either artifact and the loop goes on; the file has no *)
(* section and no undocumented line, every parseable file still has its    *)
(* section when the summary is complete, and the run ends with status 0.   *)
(***************************************************************************)
FailsToParse(n) == ~is_dir(n) /\ Sources[n].status \in {"SyntaxError", "UnicodeDecodeError"}

C9_SkipStep ==
    (pc = "analyze" /\ Len(todo) > 0 /\ ~is_ignored(Head(todo)) /\ FailsToParse(Head(todo)))
        => /\ summary' = summary
           /\ undocumented' = undocumented
           /\ warnings' = Append(warnings, Head(todo))
           /\ todo' = Tail(todo)
           /\ pc' = "analyze"
           /\ exit_code' = exit_code

C9_Skipped ==
    /\ \A k \in DOMAIN warnings :
          ~HasSection(warnings[k]) /\ ~HasUndocumentedLine(warnings[k])
    /\ SummaryComplete =>
          \A n \in fs : (glob_matches(n) /\ ~is_dir(n) /\ ~is_ignored(n)
                            /\ Enumerable(n) /\ Sources[n].status = "ok") => HasSection(n)
    /\ pc = "done" => exit_code = 0

C9_UnparseableSkipped == [][C9_SkipStep]_vars /\ []C9_Skipped

\* a run that ended with status 0 after skipping a file between two analysed ones
C9_Witness ==
    /\ pc = "done" /\ exit_code = 0
    /\ \E k \in DOMAIN warnings :
          LET order == rglob(0)
              at(n) == CHOOSE i \in DOMAIN order : order[i] = n
          IN  \E a, b \in fs :
                /\ HasSection(a) /\ HasSection(b)
                /\ at(a) < at(warnings[k]) /\ at(warnings[k]) < at(b)

(***************************************************************************)
(* C10: an entry whose name starts with "." and everything beneath it has  *)
(* no tree line and no "File:" section, whatever the rules.                *)
(***************************************************************************)
C10_HiddenExcluded ==
    \A h \in fs :
        is_hidden(h) => \A n \in Beneath(h) : ~HasTreeLine(n) /\ ~HasSection(n)

(***************************************************************************)
(* C11: when the root directory is missing or cannot be listed, the run    *)
(* never reports a completed analysis and never ends with status 0.        *)
(***************************************************************************)
C11_RootFailureIsFatal ==
    listing_fails(0) => (pc # "done" /\ exit_code # 0)

(***************************************************************************)
(* C12: in a run started with --no-gitignore no step creates or changes    *)
(* the .gitignore of the output directory.                                 *)
(***************************************************************************)
C12_NoGitignoreLeavesFileUnchanged ==
    [][no_gitignore => out_gitignore' = out_gitignore]_vars

(***************************************************************************)
(* C13: a directory whose listing raises OSError is the only thing the     *)
(* walk leaves out: its line is written, the error is logged, nothing      *)
(* beneath it is rendered, every other entry the walker keeps is rendered, *)
(* and the step always hands over to the analysis.                         *)
(***************************************************************************)
\* n is an entry the walker renders when every listing above it succeeds
WalkKept(n) ==
    /\ \A a \in {n} \cup Ancestors(n) : walk_keeps(a)
    /\ is_dir(n) \/ suffix(n) = DotPy

ErrorLogged(d) == \E k \in DOMAIN errors : errors[k] = TraversalError(d)

C13_WalkContinues ==
    StructureRendered =>
        /\ \A n \in fs : (WalkKept(n) /\ Enumerable(n)) => HasTreeLine(n)
        /\ \A d \in denied \cap fs :
              (WalkKept(d) /\ Enumerable(d)) =>
                  /\ ErrorLogged(d)
                  /\ \A n \in Beneath(d) \ {d} : ~HasTreeLine(n)

C13_StepCompletes == pc = "structure" => (pc' = "analyze" /\ exit_code' = exit_code)

C13_UnreadableDirectorySkipped == [][C13_StepCompletes]_vars /\ []C13_WalkContinues

\* a finished run whose walk met an unreadable directory with an entry in it
\* and rendered an entry after that directory
C13_Witness ==
    /\ pc = "done" /\ exit_code = 0
    /\ \E d \in denied \cap fs :
          /\ ErrorLogged(d)
          /\ \E n \in Beneath(d) \ {d} : WalkKept(n)
          /\ \E i, j \in TreeLines :
                /\ summary[i].node = d
                /\ i < j
                /\ summary[j].node \notin Beneath(d)

(***************************************************************************)
(* C14: a file that is not a .py file has no tree line, and among the      *)
(* rendered children of each directory the last one carries the last-child *)
(* connector and continuation and every earlier one the mid-child ones.    *)
(***************************************************************************)
\* the tree line of entry n
LineOf(n) == CHOOSE i \in TreeLines : summary[i].node = n

\* no rendered child of the same directory comes after the tree line i
IsLastRendered(i) ==
    \A j \in TreeLines :
        (summary[j].node # 0 /\ parent(summary[j].node) = parent(summary[i].node)) => j <= i

RECURSIVE RenderedPrefix(_)
\* the continuations of the rendered ancestors of n, outermost first
RenderedPrefix(n) ==
    IF parent(n) = 0 THEN <<>>
    ELSE RenderedPrefix(parent(n))
         \o <<IF IsLastRendered(LineOf(parent(n))) THEN ContLast ELSE ContMid>>

C14_OtherFilesInvisible ==
    StructureRendered =>
        /\ \A n \in fs : (~is_dir(n) /\ suffix(n) # DotPy) => ~HasTreeLine(n)
        /\ \A i \in TreeLines :
              summary[i].node # 0 =>
                  /\ summary[i].conn = IF IsLastRendered(i) THEN ConnLast ELSE ConnMid
                  /\ summary[i].prefix = RenderedPrefix(summary[i].node)

(***************************************************************************)
(* C15: the rendered tree is the same text whatever order the operating    *)
(* system enumerates directory entries in, and the rendered children of a  *)
(* directory come directories first, then by lower-cased name.             *)
(***************************************************************************)
RenderedTree == SelectSeq(summary, IsTreeLine)

C15_TreeIndependentOfScanOrder ==
    StructureRendered =>
        /\ \A order \in ScanOrders :
              RenderedTree = SelectSeq(generate_structure(order), IsTreeLine)
        /\ \A i, j \in TreeLines :
              (/\ i < j
               /\ summary[i].node # 0 /\ summary[j].node # 0
               /\ parent(summary[i].node) = parent(summary[j].node))
                  => ~key_less(summary[j].node, summary[i].node)

(***************************************************************************)
(* C16: the first call of comunicate_with_llm_cached for a prompt and      *)
(* options makes exactly one HTTP request and returns, the stripped        *)
(* response text on success and None on a transport or HTTP failure; a     *)
(* later call with the same prompt and options after a success makes no    *)
(* request and returns the same text.                                      *)
(***************************************************************************)
IsCachedCall(k) == calls[k].fn = "comunicate_with_llm_cached"

SameArguments(j, k) ==
    calls[j].prompt = calls[k].prompt /\ calls[j].options = calls[k].options

Succeeded(k) == calls[k].outcome = "returned" /\ calls[k].value.some

C16_OneRequestThenCached ==
    \A k \in DOMAIN calls :
        IsCachedCall(k) =>
            /\ (/\ \A j \in 1..(k - 1) : ~(IsCachedCall(j) /\ SameArguments(j, k))
                /\ calls[k].response.kind # "bad_body")
                  => /\ calls[k].requests = 1
                     /\ calls[k].outcome = "returned"
                     /\ calls[k].value = IF calls[k].response.kind = "ok"
                                         THEN Some(Strip(calls[k].response.content))
                                         ELSE None
            /\ \A j \in 1..(k - 1) :
                  (IsCachedCall(j) /\ SameArguments(j, k) /\ Succeeded(j))
                      => /\ calls[k].requests = 0
                         /\ calls[k].outcome = "returned"
                         /\ calls[k].value = calls[j].value

====
